---------------------------- MODULE Spec2Model ----------------------------
(***************************************************************************)
(* A model of bembo, a Wadler/Leijen-style pretty printer.                 *)
(*                                                                         *)
(* A Doc is a 16-byte value: a tag, the inline size of a short text, the   *)
(* per-reference flattened bit and a pointer to a heap object, plus either *)
(* the shared reference count or eight bytes of inline text.  Heap objects *)
(* (Text, Concat, Choice, Nest) live in `heap`, indexed by their address.  *)
(* Texts and the writer's output are sequences of one-character strings.   *)
(***************************************************************************)
EXTENDS Integers, Sequences, FiniteSets, TLC

VARIABLES
    heap,     \* the heap objects, by address: [tag, refs, text, kids, indent]
    term,     \* the expression of public constructors that built `root`
    root,     \* the Doc that render / pretty is called on
    width,    \* the `cols` argument of render / pretty
    pc,       \* "built" | "render" | "fits" | "chosen" | "done" | "law" | "ops" | "threads"
    rd,       \* the DocRenderer with its writer
    law,      \* the results of the pretty() calls of one algebraic check
    slots,    \* the caller's named Doc objects (the builder program)
    last,     \* the last builder operation: its name, slot, detail and number
    thr,      \* the threads that share one heap node, and its atomic count
    fits      \* the Fits objects of one fit check, the innermost last

vars == <<heap, term, root, width, pc, rd, law, slots, last, thr, fits>>

(***************************************************************************)
(* Bounds of the model.                                                    *)
(***************************************************************************)
MaxSize == 5       \* constructor calls in the expression that builds a document
MaxWidth == 3      \* widths 1..MaxWidth are rendered
NumSlots == 2      \* named Doc objects of the builder program
MaxOps == 3        \* operations the builder program performs
MaxTextLen == 10   \* characters in the string given to a text constructor
MaxItems == 3      \* elements of the range given to sep
MaxSepWidth == 8   \* widths 1..MaxSepWidth are rendered for sep
NumThreads == 2    \* threads that share one heap node
MaxHeld == 2       \* Docs referring to the node a thread holds at the start
MaxCopies == 2     \* copies a thread makes

SP == " "
NL == "\n"

StrEmpty == <<>>
StrA == <<"a">>
StrLong == <<"l", "o", "n", "g", "t", "e", "x", "t", "s">>

NestIndents == {-1, 2}
Widths == 1..MaxWidth

(***************************************************************************)
(* Small helpers over sequences.                                           *)
(***************************************************************************)
RECURSIVE Spaces(_)
Spaces(n) == IF n <= 0 THEN <<>> ELSE <<SP>> \o Spaces(n - 1)

Front(s) == SubSeq(s, 1, Len(s) - 1)

Top(s) == s[Len(s)]

Max(a, b) == IF a >= b THEN a ELSE b

(***************************************************************************)
(* The Doc value and its tag (doc.h 60-70, doc.cc 63-101).                 *)
(***************************************************************************)
TagCode == [Nil |-> 0, Line |-> 2, ShortText |-> 4,
            Text |-> 1, Concat |-> 3, Choice |-> 5, Nest |-> 7]

\* Doc::Doc(Tag tag): a variant that does not live in the heap.
DocOfTag(tag) == [tag |-> tag, flat |-> FALSE, size |-> 0, data |-> <<>>, ptr |-> 0]

\* Doc::boxed: odd tags are heap allocated and count references.
Boxed(d) == TagCode[d.tag] % 2 = 1

\* Doc::is_flattened
IsFlattened(d) == d.flat

\* Doc::is_nil
IsNil(d) == d.tag = "Nil"

\* Doc::Doc() and Doc::nil()
DocNil == DocOfTag("Nil")

\* Doc::line()
DocLine == DocOfTag("Line")

FreeNode == [tag |-> "Free", refs |-> 0, text |-> <<>>, kids |-> <<>>, indent |-> 0]

\* Doc::Doc(Tag tag, void *ptr): a fresh heap object with a fresh count of 1.
NewBoxed(h, tag, text, kids, indent) ==
    [h |-> Append(h, [tag |-> tag, refs |-> 1, text |-> text,
                      kids |-> kids, indent |-> indent]),
     d |-> [tag |-> tag, flat |-> FALSE, size |-> 0, data |-> <<>>,
            ptr |-> Len(h) + 1]]

\* Doc::increment, reached from the copy constructor and copy assignment.
Increment(h, d) == [h EXCEPT ![d.ptr].refs = @ + 1]

\* A copy that shares the count without incrementing it.
CopyDoc_NoIncrement(h, d) == h

\* Doc::Doc(const Doc &other)
CopyDoc(h, d) == IF Boxed(d) THEN Increment(h, d) ELSE h

\* Doc::cleanup: drop one reference; the last one deletes the count and the
\* object, whose destructor runs ~Doc on every child.
RECURSIVE Cleanup(_, _)
RECURSIVE CleanupAll(_, _)
Cleanup(h, d) ==
    IF ~Boxed(d) THEN h
    ELSE IF h[d.ptr].refs = 1
         THEN CleanupAll([h EXCEPT ![d.ptr] = FreeNode], h[d.ptr].kids)
         ELSE [h EXCEPT ![d.ptr].refs = @ - 1]

CleanupAll(h, ds) ==
    IF ds = <<>> THEN h ELSE CleanupAll(Cleanup(h, ds[Len(ds)]), Front(ds))

(***************************************************************************)
(* Text constructors (doc.cc 203-318).                                     *)
(***************************************************************************)
\* Doc::short_text: at most eight characters, stored inline.
ShortText(text) ==
    [tag |-> "ShortText", flat |-> FALSE, size |-> Len(text), data |-> text, ptr |-> 0]

\* A size field of three bits: an inline text of eight characters reads as none.
GetShortText_ThreeBitSize(d) == SubSeq(d.data, 1, d.size % 8)

\* Doc::get_short_text
GetShortText(d) == SubSeq(d.data, 1, d.size)

\* Doc::init_short_str: FALSE when the string does not fit inline.
InitShortStrOk(str) == Len(str) <= 8

\* Doc::init_string
InitString(h, str) == NewBoxed(h, "Text", str, <<>>, 0)

\* Doc::Doc(const char *str) and Doc::Doc(std::string_view str)
DocFromString(h, str) ==
    IF str = <<>> THEN [h |-> h, d |-> DocNil]
    ELSE IF InitShortStrOk(str) THEN [h |-> h, d |-> ShortText(str)]
    ELSE InitString(h, str)

\* Doc::s(std::string str)
DocS(h, str) ==
    IF str = <<>> THEN [h |-> h, d |-> DocNil]
    ELSE IF InitShortStrOk(str) THEN [h |-> h, d |-> ShortText(str)]
    ELSE InitString(h, str)

\* Doc::s(const char *str), str not null: no test for the empty string.
DocSCStr(h, str) ==
    IF Len(str) <= 8 THEN [h |-> h, d |-> ShortText(str)]
    ELSE NewBoxed(h, "Text", str, <<>>, 0)

\* Doc::sv(std::string_view str)
DocSv(h, str) ==
    IF str = <<>> THEN [h |-> h, d |-> DocNil]
    ELSE IF Len(str) <= 8 THEN [h |-> h, d |-> ShortText(str)]
    ELSE NewBoxed(h, "Text", str, <<>>, 0)

\* Doc::c(char c)
DocC(c) == ShortText(<<c>>)

(***************************************************************************)
(* Combinators.  Every Doc argument is a by-value parameter: the operator  *)
(* owns the references in its arguments and moves them into the result.    *)
(***************************************************************************)
\* Doc::choice
DocChoice(h, left, right) == NewBoxed(h, "Choice", <<>>, <<left, right>>, 0)

\* Doc::softline
DocSoftline(h) == DocChoice(h, DocC(SP), DocLine)

\* Doc::softbreak
DocSoftbreak(h) == DocChoice(h, DocNil, DocLine)

\* Doc::concat / concat_impl: every argument is appended, Nil ones included.
DocConcat(h, args) == NewBoxed(h, "Concat", <<>>, args, 0)

\* Doc::vcat / vcat_impl: a Line between consecutive arguments.
VcatKids(args) ==
    [i \in 1..(2 * Len(args) - 1) |-> IF i % 2 = 1 THEN args[(i + 1) \div 2] ELSE DocLine]

DocVcat(h, args) == NewBoxed(h, "Concat", <<>>, VcatKids(args), 0)

\* Doc &Doc::flatten(): sets the bit of this reference only.
FlattenRef(d) == [d EXCEPT !.flat = TRUE]

\* static Doc::flatten(Doc doc): a flattened copy; the parameter is destroyed.
DocFlatten(h, doc) == [h |-> Cleanup(CopyDoc(h, doc), doc), d |-> FlattenRef(doc)]

\* A group whose two branches are both the flattened reference.
DocGroup_FlattensBoth(h, doc) ==
    LET f == DocFlatten(CopyDoc(h, doc), doc)
    IN  DocChoice(f.h, f.d, f.d)

\* Doc::group: choice(flatten(doc), doc); flatten receives a copy of doc.
DocGroup(h, doc) ==
    LET f == DocFlatten(CopyDoc(h, doc), doc)
    IN  DocChoice(f.h, f.d, doc)

\* Doc::nest
DocNest(h, indent, doc) == NewBoxed(h, "Nest", <<>>, <<doc>>, indent)

\* Doc::operator+: concat(*this, std::move(other)); *this is copied.
OpPlus(h, this, other) == DocConcat(CopyDoc(h, this), <<this, other>>)

\* Doc::operator<<: *this + Doc::c(' ') + std::move(other); the inner
\* temporary is copied into the result and destroyed.
OpShl(h, this, other) ==
    LET t1 == OpPlus(h, this, DocC(SP))
        t2 == OpPlus(t1.h, t1.d, other)
    IN  [h |-> Cleanup(t2.h, t1.d), d |-> t2.d]

\* Doc::operator/: concat(*this, Doc::line(), std::move(other))
OpSlash(h, this, other) == DocConcat(CopyDoc(h, this), <<this, DocLine, other>>)

\* Doc::is_unique
IsUnique(h, d) == h[d.ptr].refs = 1

\* Doc::operator=(Doc &&other): release what this held, take other's fields.
MoveAssign(h, this, other) == [h |-> Cleanup(h, this), d |-> other]

\* Doc::operator=(const Doc &other), this and other distinct objects.
CopyAssign(h, this, other) == [h |-> CopyDoc(Cleanup(h, this), other), d |-> other]

\* An append that overwrites *this with other.
AppendDoc_Overwrites(h, this, other) == MoveAssign(h, this, other)

\* Doc::append(Doc other); the result is the new value of *this.
AppendDoc(h, this, other) ==
    IF IsNil(other) THEN [h |-> h, d |-> this]
    ELSE IF this.tag = "Nil" THEN MoveAssign(h, this, other)
    ELSE IF this.tag = "Concat" /\ IsUnique(h, this)
         THEN [h |-> [h EXCEPT ![this.ptr].kids = Append(@, other)], d |-> this]
         ELSE LET c == OpPlus(h, this, other)
              IN  MoveAssign(c.h, this, c.d)

\* Doc::operator<<=: append(Doc::c(' ')), then append(std::move(other)).
OpShlEq(h, this, other) ==
    LET a == AppendDoc(h, this, DocC(SP))
    IN  AppendDoc(a.h, a.d, other)

\* Doc::operator/=: *this = concat(*this, Doc::line(), std::move(other))
OpSlashEq(h, this, other) ==
    LET c == OpSlash(h, this, other)
    IN  MoveAssign(c.h, this, c.d)

\* std::copy(begin, end, std::back_inserter(vec)): each element is copied.
RECURSIVE CopyInto(_, _, _)
CopyInto(h, ptr, elems) ==
    IF elems = <<>> THEN h
    ELSE CopyInto([CopyDoc(h, elems[1]) EXCEPT ![ptr].kids = Append(@, elems[1])],
                  ptr, Tail(elems))

\* Doc::append(begin, end) and Doc::append(rng): a Doc that is no Concat is
\* first replaced by an empty Concat; there is no test for unique ownership.
AppendRange(h, this, elems) ==
    LET c == IF this.tag # "Concat"
             THEN LET n == NewBoxed(h, "Concat", <<>>, <<>>, 0)
                  IN  MoveAssign(n.h, this, n.d)
             ELSE [h |-> h, d |-> this]
    IN  [h |-> CopyInto(c.h, c.d.ptr, elems), d |-> c.d]

\* join: std::accumulate(begin, end, Doc::nil()), acc = std::move(acc) + *first.
RECURSIVE Join(_, _, _)
Join(h, acc, elems) ==
    IF elems = <<>> THEN [h |-> h, d |-> acc]
    ELSE LET n == OpPlus(CopyDoc(h, elems[1]), acc, elems[1])
         IN  Join(Cleanup(n.h, acc), n.d, Tail(elems))

(***************************************************************************)
(* Writers (doc.cc 600-623).  `buf` is what has been written, `status`     *)
(* becomes "length_error" when std::string::append throws.                 *)
(***************************************************************************)
NewWriter(kind) == [kind |-> kind, buf |-> <<>>, status |-> "ok"]

\* StreamWriter::line: a newline, then one put(' ') per i in [0, indent).
StreamWriterLine(w, indent) == [w EXCEPT !.buf = (@ \o <<NL>>) \o Spaces(indent)]

\* StringWriter::line: push_back('\n'), then append(indent, ' ') with indent
\* converted to size_t; a negative indent is a count above max_size() and
\* append throws std::length_error after the newline was pushed.
StringWriterLine(w, indent) ==
    IF indent < 0
    THEN [w EXCEPT !.buf = @ \o <<NL>>, !.status = "length_error"]
    ELSE [w EXCEPT !.buf = (@ \o <<NL>>) \o Spaces(indent)]

\* Writer::line, dispatched on the writer's dynamic type.
WriterLine(w, indent) ==
    IF w.kind = "string" THEN StringWriterLine(w, indent) ELSE StreamWriterLine(w, indent)

\* StreamWriter::write and StringWriter::write
WriterWrite(w, sv) == [w EXCEPT !.buf = @ \o sv]

(***************************************************************************)
(* The work items shared by Fits and DocRenderer (doc.cc 394-400).  `path` *)
(* is bookkeeping: the child indices leading from the root to the Doc.     *)
(***************************************************************************)
Node(doc, indent, flattening, path) ==
    [doc |-> doc, indent |-> indent, flattening |-> flattening, path |-> path]

\* The text of a ShortText or Text reference.
TextOf(h, d) == IF d.tag = "ShortText" THEN GetShortText(d) ELSE h[d.ptr].text

(***************************************************************************)
(* Fits (doc.cc 404-509).  `it` is the reverse iterator into the           *)
(* renderer's stack: the index of the next pending item, 0 at rend().      *)
(***************************************************************************)
\* the `push` lambda of Fits::check
FitsPush(parent, doc) == Node(doc, 0, parent.flattening \/ IsFlattened(doc), <<>>)

\* A fit walk that takes one pending item and then stops advancing.
FitsAdvanceOk_Once(it, stack) == it # 0 /\ it = Len(stack)

\* Fits::advance returns false at the end of the renderer's stack.
FitsAdvanceOk(it, stack) == it # 0

\* Fits::check, Line case: a flattened Line costs one column.
FitsLineCol(col) == col + 1

\* A fit walk that counts one column too many for each text.
FitsTextCol_OffByOne(col, text) == col + Len(text) + 1

\* Fits::check, ShortText and Text cases: the column after the text.
FitsTextCol(col, text) == col + Len(text)

\* Fits::check, Concat case: children pushed from last to first.
FitsConcatPush(node, kids) == [i \in 1..Len(kids) |-> FitsPush(node, kids[Len(kids) + 1 - i])]

RECURSIVE FitsRun(_, _, _, _, _, _)
\* Fits::check after its first emplace_back: the do/while around the work loop.
\* col, it and work are the values of the members on entry to an iteration.
FitsRun(h, W, col0, it0, stack, work0) ==
  \E col \in {col0}, it \in {it0}, work \in {work0} :
    IF work = <<>>
    THEN IF FitsAdvanceOk(it, stack)
         THEN FitsRun(h, W, col, it - 1, stack, <<stack[it]>>)
         ELSE TRUE
    ELSE LET node == Top(work)
             rest == Front(work)
             tag  == node.doc.tag
         IN  CASE tag = "Nil" -> FitsRun(h, W, col, it, stack, rest)
               [] tag = "Line" ->
                    IF node.flattening
                    THEN FitsRun(h, W, FitsLineCol(col), it, stack, rest)
                    ELSE TRUE
               [] tag \in {"ShortText", "Text"} ->
                    LET c == FitsTextCol(col, TextOf(h, node.doc))
                    IN  IF c > W THEN FALSE ELSE FitsRun(h, W, c, it, stack, rest)
               [] tag = "Concat" ->
                    FitsRun(h, W, col, it, stack,
                            rest \o FitsConcatPush(node, h[node.doc.ptr].kids))
               [] tag = "Choice" ->
                    LET left   == h[node.doc.ptr].kids[1]
                        right  == h[node.doc.ptr].kids[2]
                        \* Fits nested{*this}; nested.check(&choice.left, ...)
                        nested == FitsRun(h, W, col, it, stack,
                                     Append(rest, Node(left, 0,
                                        (node.flattening \/ IsFlattened(left))
                                            \/ IsFlattened(left), <<>>)))
                    IN  FitsRun(h, W, col, it, stack,
                                Append(rest, FitsPush(node, IF nested THEN left ELSE right)))
               [] tag = "Nest" ->
                    FitsRun(h, W, col, it, stack,
                            Append(rest, FitsPush(node, h[node.doc.ptr].kids[1])))

\* Fits::check(doc, flattening) on a Fits built by Fits(width, col, it, end).
FitsCheck(h, W, col, stack, doc, flattening) ==
    FitsRun(h, W, col, Len(stack), stack,
            <<Node(doc, 0, flattening \/ IsFlattened(doc), <<>>)>>)

(***************************************************************************)
(* DocRenderer (doc.cc 511-598).  The record holds the writer `w`, the     *)
(* column `col` and the work stack `work` (its back is the last element).  *)
(* `calls` logs the writer calls with the path of the node that made each; *)
(* `leftOpen` records that a left branch was committed to outside a        *)
(* flattened context and no line break has been written since.             *)
(***************************************************************************)
\* A push that forgets the parent's flattening.
RenderPush_NoInherit(parent, doc, i) ==
    Node(doc, parent.indent, IsFlattened(doc), Append(parent.path, i))

\* the `push` lambda of DocRenderer::render
RenderPush(parent, doc, i) ==
    Node(doc, parent.indent, parent.flattening \/ IsFlattened(doc), Append(parent.path, i))

\* DocRenderer::render before its loop: clear, then push the root.
RenderInit(kind, doc) ==
    [w        |-> NewWriter(kind),
     col      |-> 0,
     work     |-> <<Node(doc, 0, IsFlattened(doc), <<>>)>>,
     calls    |-> <<>>,
     leftOpen |-> FALSE,
     doc      |-> doc]

WriteCall(node, text) == [op |-> "write", indent |-> 0, text |-> text, path |-> node.path]

LineCall(node) == [op |-> "line", indent |-> node.indent, text |-> <<>>, path |-> node.path]

\* render, Line case, not flattened: the column after writer.line(indent).
RenderLineCol(indent) == 0

\* render, Line case
RenderLine(r, node) ==
    IF node.flattening
    THEN [r EXCEPT !.col = @ + 1,
                   !.w = WriterWrite(@, <<SP>>),
                   !.calls = Append(@, WriteCall(node, <<SP>>))]
    ELSE [r EXCEPT !.col = RenderLineCol(node.indent),
                   !.w = WriterLine(@, node.indent),
                   !.calls = Append(@, LineCall(node)),
                   !.leftOpen = FALSE]

\* render, ShortText and Text cases
RenderText(h, r, node) ==
    LET text == TextOf(h, node.doc)
    IN  [r EXCEPT !.col = @ + Len(text),
                  !.w = WriterWrite(@, text),
                  !.calls = Append(@, WriteCall(node, text))]

\* A loop that stops one child short of rend().
RenderConcatPush_SkipFirst(node, kids) ==
    [i \in 1..(Len(kids) - 1) |->
        RenderPush(node, kids[Len(kids) + 1 - i], Len(kids) + 1 - i)]

\* A loop that pushes the children from first to last.
RenderConcatPush_FirstToLast(node, kids) ==
    [i \in 1..Len(kids) |-> RenderPush(node, kids[i], i)]

\* render, Concat case: children pushed from last to first.
RenderConcatPush(node, kids) ==
    [i \in 1..Len(kids) |->
        RenderPush(node, kids[Len(kids) + 1 - i], Len(kids) + 1 - i)]

RenderConcat(h, r, node) ==
    [r EXCEPT !.work = @ \o RenderConcatPush(node, h[node.doc.ptr].kids)]

\* render, Choice case: the fit check sees the stack as the pop left it.
RenderChoiceFits(h, W, r, node) ==
    FitsCheck(h, W, r.col, r.work, h[node.doc.ptr].kids[1], node.flattening)

\* A flattened Choice that takes its right branch.
RenderChoiceFlat_Right(h, r, node) ==
    [r EXCEPT !.work = Append(@, Node(h[node.doc.ptr].kids[2], node.indent, TRUE,
                                      Append(node.path, 2)))]

\* render, Choice case in a flattened context: the left branch, flattened.
RenderChoiceFlat(h, r, node) ==
    [r EXCEPT !.work = Append(@, Node(h[node.doc.ptr].kids[1], node.indent, TRUE,
                                      Append(node.path, 1)))]

RenderChoice(h, W, r, node) ==
    IF node.flattening
    THEN RenderChoiceFlat(h, r, node)
    ELSE IF RenderChoiceFits(h, W, r, node)
         THEN [r EXCEPT !.work = Append(@, RenderPush(node, h[node.doc.ptr].kids[1], 1)),
                        !.leftOpen = TRUE]
         ELSE [r EXCEPT !.work = Append(@, RenderPush(node, h[node.doc.ptr].kids[2], 2))]

\* A Nest that leaves the indentation as it was.
RenderNestIndent_Ignored(indent, k) == indent

\* render, Nest case: next.indent += nest.indent
RenderNestIndent(indent, k) == indent + k

RenderNest(h, r, node) ==
    LET next == RenderPush(node, h[node.doc.ptr].kids[1], 1)
    IN  [r EXCEPT !.work = Append(@, [next EXCEPT
                      !.indent = RenderNestIndent(@, h[node.doc.ptr].indent)])]

\* One iteration of the loop of DocRenderer::render: pop, then the switch.
RenderStep(h, W, r) ==
    LET node == Top(r.work)
        r1   == [r EXCEPT !.work = Front(@)]
        tag  == node.doc.tag
    IN  CASE tag = "Nil" -> r1
          [] tag = "Line" -> RenderLine(r1, node)
          [] tag \in {"ShortText", "Text"} -> RenderText(h, r1, node)
          [] tag = "Concat" -> RenderConcat(h, r1, node)
          [] tag = "Choice" -> RenderChoice(h, W, r1, node)
          [] tag = "Nest" -> RenderNest(h, r1, node)

\* The loop runs until the stack is empty; an exception thrown by the writer
\* leaves render at once.
RenderRunning(r) == r.work # <<>> /\ r.w.status = "ok"

RECURSIVE RenderRun(_, _, _)
RenderRun(h, W, r) == IF RenderRunning(r) THEN RenderRun(h, W, RenderStep(h, W, r)) ELSE r

\* Doc::pretty: render into a fresh StringWriter and return its buffer, or
\* leave with the writer's exception.
Pretty(h, doc, W) ==
    LET r == RenderRun(h, W, RenderInit("string", doc))
    IN  [out |-> r.w.buf, status |-> r.w.status]

(***************************************************************************)
(* The documents that are rendered: every expression of at most MaxSize    *)
(* public constructor calls over the leaves below.                         *)
(***************************************************************************)
T(op, str, k, args) == [op |-> op, s |-> str, k |-> k, args |-> args]

Leaves ==
    {T("nil", <<>>, 0, <<>>), T("line", <<>>, 0, <<>>),
     T("softline", <<>>, 0, <<>>), T("softbreak", <<>>, 0, <<>>),
     T("text", StrA, 0, <<>>), T("text", StrLong, 0, <<>>)}

RECURSIVE TermsOfSize(_)
TermsOfSize(n) ==
    IF n <= 1 THEN Leaves
    ELSE LET prev == TermsOfSize(n - 1)
         IN  {T("group", <<>>, 0, <<a>>) : a \in prev}
             \cup {T("nest", <<>>, k, <<a>>) : k \in NestIndents, a \in prev}
             \cup UNION {{T("concat", <<>>, 0, <<a, b>>) :
                              a \in TermsOfSize(i), b \in TermsOfSize(n - 1 - i)} :
                         i \in 1..(n - 2)}

Terms == UNION {TermsOfSize(n) : n \in 1..MaxSize}

\* The evaluation of an expression: each constructor receives the temporaries
\* built for its arguments.
RECURSIVE Build(_, _)
Build(h, t) ==
    CASE t.op = "nil" -> [h |-> h, d |-> DocNil]
      [] t.op = "line" -> [h |-> h, d |-> DocLine]
      [] t.op = "softline" -> DocSoftline(h)
      [] t.op = "softbreak" -> DocSoftbreak(h)
      [] t.op = "text" -> DocSv(h, t.s)
      [] t.op = "group" -> LET a == Build(h, t.args[1]) IN DocGroup(a.h, a.d)
      [] t.op = "nest" -> LET a == Build(h, t.args[1]) IN DocNest(a.h, t.k, a.d)
      [] t.op = "concat" ->
            LET a == Build(h, t.args[1])
                b == Build(a.h, t.args[2])
            IN  DocConcat(b.h, <<a.d, b.d>>)

(***************************************************************************)
(* Rendering one document: Init draws the document and the width, the      *)
(* caller picks a writer and calls render on the document or on            *)
(* Doc::flatten of it, and the loop of DocRenderer::render runs one        *)
(* iteration per step.                                                     *)
(***************************************************************************)
RenderIdle ==
    [w |-> NewWriter("none"), col |-> 0, work |-> <<>>, calls |-> <<>>,
     leftOpen |-> FALSE, doc |-> DocNil]

NoLaw == [name |-> "none", x |-> <<>>, y |-> <<>>, z |-> <<>>, n |-> <<>>]

NoOp == [op |-> "none", target |-> 0, info |-> 0, n |-> 0]

NoFits == [node |-> <<>>, frames |-> <<>>, ret |-> "none", last |-> <<>>]

NoThreads == [t |-> <<>>, count |-> 0, refsLive |-> FALSE, objLive |-> FALSE,
              frees |-> 0, stale |-> FALSE]

Init ==
    \E t \in Terms, W \in Widths :
        /\ term = t
        /\ LET b == Build(<<>>, t)
           IN  heap = b.h /\ root = b.d
        /\ width = W
        /\ pc = "built"
        /\ rd = RenderIdle
        /\ law = NoLaw
        /\ slots = <<>>
        /\ last = NoOp
        /\ thr = NoThreads
        /\ fits = NoFits

WriterKinds == {"string", "stream"}

\* root.render(writer, width)
RenderStart(kind) ==
    /\ pc = "built"
    /\ rd' = RenderInit(kind, root)
    /\ pc' = "render"
    /\ UNCHANGED <<heap, term, root, width, law, slots, last, thr, fits>>

\* Doc::flatten(root).render(writer, width)
RenderStartFlat(kind) ==
    /\ pc = "built"
    /\ LET f == DocFlatten(CopyDoc(heap, root), root)
       IN  /\ heap' = f.h
           /\ rd' = RenderInit(kind, f.d)
    /\ pc' = "render"
    /\ UNCHANGED <<term, root, width, law, slots, last, thr, fits>>

\* The loop condition holds and the popped node has this tag.
AtCase(tag) == pc = "render" /\ RenderRunning(rd) /\ Top(rd.work).doc.tag = tag

RenderNilStep ==
    /\ AtCase("Nil")
    /\ rd' = RenderStep(heap, width, rd)
    /\ UNCHANGED <<heap, term, root, width, pc, law, slots, last, thr, fits>>

RenderLineStep ==
    /\ AtCase("Line")
    /\ rd' = RenderStep(heap, width, rd)
    /\ UNCHANGED <<heap, term, root, width, pc, law, slots, last, thr, fits>>

RenderShortTextStep ==
    /\ AtCase("ShortText")
    /\ rd' = RenderStep(heap, width, rd)
    /\ UNCHANGED <<heap, term, root, width, pc, law, slots, last, thr, fits>>

RenderTextStep ==
    /\ AtCase("Text")
    /\ rd' = RenderStep(heap, width, rd)
    /\ UNCHANGED <<heap, term, root, width, pc, law, slots, last, thr, fits>>

RenderConcatStep ==
    /\ AtCase("Concat")
    /\ rd' = RenderStep(heap, width, rd)
    /\ UNCHANGED <<heap, term, root, width, pc, law, slots, last, thr, fits>>

RenderChoiceStep ==
    /\ AtCase("Choice")
    /\ rd' = RenderStep(heap, width, rd)
    /\ UNCHANGED <<heap, term, root, width, pc, law, slots, last, thr, fits>>

RenderNestStep ==
    /\ AtCase("Nest")
    /\ rd' = RenderStep(heap, width, rd)
    /\ UNCHANGED <<heap, term, root, width, pc, law, slots, last, thr, fits>>

\* render returns when the stack is empty, or is left by the writer's exception.
RenderReturn ==
    /\ pc = "render"
    /\ ~RenderRunning(rd)
    /\ pc' = "done"
    /\ UNCHANGED <<heap, term, root, width, rd, law, slots, last, thr, fits>>

Next ==
    \/ \E kind \in WriterKinds : RenderStart(kind)
    \/ \E kind \in WriterKinds : RenderStartFlat(kind)
    \/ RenderNilStep
    \/ RenderLineStep
    \/ RenderShortTextStep
    \/ RenderTextStep
    \/ RenderConcatStep
    \/ RenderChoiceStep
    \/ RenderNestStep
    \/ RenderReturn

Spec == Init /\ [][Next]_vars

(***************************************************************************)
(* The same calls with DocRenderer::render taken as one step, from the     *)
(* push of the root to the return or the writer's exception.               *)
(***************************************************************************)
\* root.render(writer, width), to its end
RenderAll(kind) ==
    /\ pc = "built"
    /\ rd' = RenderRun(heap, width, RenderInit(kind, root))
    /\ pc' = "done"
    /\ UNCHANGED <<heap, term, root, width, law, slots, last, thr, fits>>

\* Doc::flatten(root).render(writer, width), to its end
RenderAllFlat(kind) ==
    /\ pc = "built"
    /\ LET f == DocFlatten(CopyDoc(heap, root), root)
       IN  /\ heap' = f.h
           /\ rd' = RenderRun(f.h, width, RenderInit(kind, f.d))
    /\ pc' = "done"
    /\ UNCHANGED <<term, root, width, law, slots, last, thr, fits>>

NextRun ==
    \/ \E kind \in WriterKinds : RenderAll(kind)
    \/ \E kind \in WriterKinds : RenderAllFlat(kind)

SpecRun == Init /\ [][NextRun]_vars

(***************************************************************************)
(* The algebraic checks: from the same initial states, one action per law  *)
(* builds both sides with the public operators and calls pretty on each.   *)
(* The temporaries are destroyed when the check ends.                      *)
(***************************************************************************)
\* pretty(Doc::flatten(root), W) and pretty(Doc::group(root), W)
LawGroup ==
    /\ pc = "built"
    /\ LET f == DocFlatten(CopyDoc(heap, root), root)
           g == DocGroup(CopyDoc(heap, root), root)
       IN  law' = [name |-> "group",
                   x |-> Pretty(f.h, f.d, width),
                   y |-> Pretty(g.h, g.d, width),
                   z |-> <<>>, n |-> <<>>]
    /\ pc' = "law"
    /\ UNCHANGED <<heap, term, root, width, rd, slots, last, thr, fits>>

\* pretty(root, W), pretty(Doc::nil() + root, W), pretty(root + Doc::nil(), W)
\* and pretty(Doc::nil(), W)
LawNil ==
    /\ pc = "built"
    /\ LET l == OpPlus(CopyDoc(heap, root), DocNil, root)
           r == OpPlus(heap, root, DocNil)
       IN  law' = [name |-> "nil",
                   x |-> Pretty(heap, root, width),
                   y |-> Pretty(l.h, l.d, width),
                   z |-> Pretty(r.h, r.d, width),
                   n |-> Pretty(heap, DocNil, width)]
    /\ pc' = "law"
    /\ UNCHANGED <<heap, term, root, width, rd, slots, last, thr, fits>>

\* root was built as (x + y) + z
IsLeftNested(t) == t.op = "concat" /\ t.args[1].op = "concat"

\* pretty((x + y) + z, W) and pretty(x + (y + z), W) over the same x, y, z
LawAssoc ==
    /\ pc = "built"
    /\ IsLeftNested(term)
    /\ LET xy == heap[root.ptr].kids[1]
           x  == heap[xy.ptr].kids[1]
           y  == heap[xy.ptr].kids[2]
           z  == heap[root.ptr].kids[2]
           yz == OpPlus(CopyDoc(heap, z), y, z)
           r  == OpPlus(yz.h, x, yz.d)
       IN  law' = [name |-> "assoc",
                   x |-> Pretty(heap, root, width),
                   y |-> Pretty(r.h, r.d, width),
                   z |-> <<>>, n |-> <<>>]
    /\ pc' = "law"
    /\ UNCHANGED <<heap, term, root, width, rd, slots, last, thr, fits>>

NextLaw == LawGroup \/ LawNil \/ LawAssoc

SpecLaw == Init /\ [][NextLaw]_vars

(***************************************************************************)
(* The builder program: NumSlots named Doc objects, all Nil at first, and  *)
(* one action per public constructor or operator applied to them.  A Doc   *)
(* argument passed by value is a copy of the slot; a range is a container  *)
(* of copies of slots, destroyed after the call.  `last` names the last    *)
(* operation, the slot it was applied to, how many operations were done,   *)
(* and in `info` the length of a text constructor's string or the number   *)
(* of non-nil documents given to + or join.                                *)
(***************************************************************************)
Slots == 1..NumSlots

TextCtors == {"Doc(const char*)", "Doc(string_view)", "s(string)", "s(const char*)", "sv"}

Strings == {StrEmpty, StrA, StrLong}

\* The text constructor called `ctor`.
TextCtor(h, ctor, str) ==
    CASE ctor = "Doc(const char*)" -> DocFromString(h, str)
      [] ctor = "Doc(string_view)" -> DocFromString(h, str)
      [] ctor = "s(string)" -> DocS(h, str)
      [] ctor = "s(const char*)" -> DocSCStr(h, str)
      [] ctor = "sv" -> DocSv(h, str)

InitBuild ==
    /\ heap = <<>>
    /\ slots = [i \in Slots |-> DocNil]
    /\ last = NoOp
    /\ thr = NoThreads
    /\ fits = NoFits
    /\ pc = "ops"
    /\ term = T("nil", <<>>, 0, <<>>)
    /\ root = DocNil
    /\ width = 1
    /\ rd = RenderIdle
    /\ law = NoLaw

\* The program has operations left to perform.
Ready == pc = "ops" /\ last.n < MaxOps

\* slots[i] = <temporary r.d>, by move assignment.
Store(i, r, op, info) ==
    /\ heap' = Cleanup(r.h, slots[i])
    /\ slots' = [slots EXCEPT ![i] = r.d]
    /\ last' = [op |-> op, target |-> i, info |-> info, n |-> last.n + 1]
    /\ UNCHANGED <<term, root, width, pc, rd, law, thr, fits>>

\* slots[i] was operated on in place and now holds r.d.
Update(i, r, op) ==
    /\ heap' = r.h
    /\ slots' = [slots EXCEPT ![i] = r.d]
    /\ last' = [op |-> op, target |-> i, info |-> 0, n |-> last.n + 1]
    /\ UNCHANGED <<term, root, width, pc, rd, law, thr, fits>>

\* The ranges passed to append and join: empty, one element, or a fresh
\* Doc::sv("a") followed by a second element.  An element is a copy of a slot
\* or (item 0) a fresh Doc::sv("a").
RangeItems == Slots \cup {0}

Ranges == {<<>>} \cup {<<j>> : j \in RangeItems} \cup {<<0, j>> : j \in Slots}

RangeElems(js) == [n \in 1..Len(js) |-> IF js[n] = 0 THEN ShortText(StrA) ELSE slots[js[n]]]

NonNil(ds) == Cardinality({n \in 1..Len(ds) : ~IsNil(ds[n])})

RECURSIVE CopyAll(_, _)
CopyAll(h, ds) == IF ds = <<>> THEN h ELSE CopyAll(CopyDoc(h, ds[1]), Tail(ds))

NewText(i, ctor, str) ==
    /\ Ready
    /\ Store(i, TextCtor(heap, ctor, str), "text", Len(str))

NewLine(i) ==
    /\ Ready
    /\ Store(i, [h |-> heap, d |-> DocLine], "line", 0)

\* slots[i] = slots[j]
Copy(i, j) ==
    /\ Ready
    /\ i # j
    /\ Update(i, CopyAssign(heap, slots[i], slots[j]), "copy")

\* the Doc in slots[i] is destroyed (the slot holds a fresh Doc() afterwards)
Destroy(i) ==
    /\ Ready
    /\ ~IsNil(slots[i])
    /\ Update(i, [h |-> Cleanup(heap, slots[i]), d |-> DocNil], "destroy")

\* slots[i] = slots[j] + slots[k]
Plus(i, j, k) ==
    /\ Ready
    /\ Store(i, OpPlus(CopyDoc(heap, slots[k]), slots[j], slots[k]), "+",
             NonNil(<<slots[j], slots[k]>>))

\* slots[i] = slots[j] << slots[k]
Shl(i, j, k) ==
    /\ Ready
    /\ Store(i, OpShl(CopyDoc(heap, slots[k]), slots[j], slots[k]), "<<", 0)

\* slots[i] = slots[j] / slots[k]
Slash(i, j, k) ==
    /\ Ready
    /\ Store(i, OpSlash(CopyDoc(heap, slots[k]), slots[j], slots[k]), "/", 0)

\* slots[i] = Doc::vcat(slots[j], slots[k])
Vcat(i, j, k) ==
    /\ Ready
    /\ Store(i, DocVcat(CopyDoc(CopyDoc(heap, slots[j]), slots[k]),
                        <<slots[j], slots[k]>>), "vcat", 0)

\* slots[i].append(slots[j]), also slots[i] += slots[j]
PlusEq(i, j) ==
    /\ Ready
    /\ Update(i, AppendDoc(CopyDoc(heap, slots[j]), slots[i], slots[j]), "+=")

\* slots[i] <<= slots[j]
ShlEq(i, j) ==
    /\ Ready
    /\ Update(i, OpShlEq(CopyDoc(heap, slots[j]), slots[i], slots[j]), "<<=")

\* slots[i] /= slots[j]
SlashEq(i, j) ==
    /\ Ready
    /\ Update(i, OpSlashEq(CopyDoc(heap, slots[j]), slots[i], slots[j]), "/=")

\* slots[i].append(range), both overloads; the range is destroyed afterwards.
AppendRng(i, js) ==
    /\ Ready
    /\ LET elems == RangeElems(js)
           r     == AppendRange(CopyAll(heap, elems), slots[i], elems)
       IN  Update(i, [h |-> CleanupAll(r.h, elems), d |-> r.d], "append(range)")

\* slots[i] = join(range)
JoinRng(i, js) ==
    /\ Ready
    /\ LET elems == RangeElems(js)
           r     == Join(CopyAll(heap, elems), DocNil, elems)
       IN  Store(i, [h |-> CleanupAll(r.h, elems), d |-> r.d], "join", NonNil(elems))

\* slots[i].flatten()
FlattenSlot(i) ==
    /\ Ready
    /\ ~slots[i].flat
    /\ Update(i, [h |-> heap, d |-> FlattenRef(slots[i])], "flatten")

\* slots[i] = Doc::flatten(slots[j])
FlattenOf(i, j) ==
    /\ Ready
    /\ Store(i, DocFlatten(CopyDoc(heap, slots[j]), slots[j]), "flatten(d)", 0)

\* slots[i] = Doc::group(slots[j])
Group(i, j) ==
    /\ Ready
    /\ Store(i, DocGroup(CopyDoc(heap, slots[j]), slots[j]), "group", 0)

\* slots[i] = Doc::nest(k, slots[j])
Nest(i, k, j) ==
    /\ Ready
    /\ Store(i, DocNest(CopyDoc(heap, slots[j]), k, slots[j]), "nest", 0)

NextBuild ==
    \/ \E i \in Slots, ctor \in TextCtors, str \in Strings : NewText(i, ctor, str)
    \/ \E i \in Slots : NewLine(i)
    \/ \E i, j \in Slots : Copy(i, j)
    \/ \E i \in Slots : Destroy(i)
    \/ \E i, j, k \in Slots : Plus(i, j, k)
    \/ \E i, j, k \in Slots : Shl(i, j, k)
    \/ \E i, j, k \in Slots : Slash(i, j, k)
    \/ \E i, j, k \in Slots : Vcat(i, j, k)
    \/ \E i, j \in Slots : PlusEq(i, j)
    \/ \E i, j \in Slots : ShlEq(i, j)
    \/ \E i, j \in Slots : SlashEq(i, j)
    \/ \E i \in Slots, js \in Ranges : AppendRng(i, js)
    \/ \E i \in Slots, js \in Ranges : JoinRng(i, js)
    \/ \E i \in Slots : FlattenSlot(i)
    \/ \E i, j \in Slots : FlattenOf(i, j)
    \/ \E i, j \in Slots : Group(i, j)
    \/ \E i, j \in Slots, k \in NestIndents : Nest(i, k, j)

SpecBuild == InitBuild /\ [][NextBuild]_vars

(***************************************************************************)
(* Texts: Init draws a newline-free string of 1..MaxTextLen characters, a  *)
(* text constructor and a width; the text is rendered alone, and behind a  *)
(* choice whose outcome depends on the columns the text takes.             *)
(***************************************************************************)
Alphabet == <<"a", "b", "c", "d", "e", "f", "g", "h", "i", "j", "k", "l", "m">>

TextStrings ==
    {[i \in 1..n |-> Alphabet[((o + i - 1) % Len(Alphabet)) + 1]] :
        n \in 1..MaxTextLen, o \in 0..2}

TextWidths == 1..(MaxTextLen + 1)

InitText ==
    \E str \in TextStrings, ctor \in TextCtors, W \in TextWidths :
        /\ term = T("text", str, 0, <<>>)
        /\ LET b == TextCtor(<<>>, ctor, str)
           IN  heap = b.h /\ root = b.d
        /\ width = W
        /\ pc = "built"
        /\ rd = RenderIdle
        /\ law = NoLaw
        /\ slots = <<>>
        /\ last = [NoOp EXCEPT !.op = ctor]
        /\ thr = NoThreads
        /\ fits = NoFits

\* pretty(Doc::group(Doc::line() + root), W) and
\* pretty(Doc::softline() + root, W)
TextBehindChoice ==
    /\ pc = "built"
    /\ LET c == OpPlus(CopyDoc(heap, root), DocLine, root)
           g == DocGroup(c.h, c.d)
           s == DocSoftline(CopyDoc(heap, root))
           t == DocConcat(s.h, <<s.d, root>>)
       IN  law' = [name |-> "text",
                   x |-> Pretty(g.h, g.d, width),
                   y |-> Pretty(t.h, t.d, width),
                   z |-> <<>>, n |-> <<>>]
    /\ pc' = "law"
    /\ UNCHANGED <<heap, term, root, width, rd, slots, last, thr, fits>>

NextText ==
    \/ \E kind \in WriterKinds : RenderAll(kind)
    \/ TextBehindChoice

SpecText == InitText /\ [][NextText]_vars

(***************************************************************************)
(* sep (doc.h 264-288): Init draws a separator, at most MaxItems one-      *)
(* character items and a width; the one action builds the separator and    *)
(* the array of items, calls sep and pretty.  `term` records the inputs:   *)
(* term.s is the kind of separator, term.args the items' strings.          *)
(***************************************************************************)
\* sep(Doc d, It begin, It end), from the loop on: res is the accumulator.
RECURSIVE SepLoop(_, _, _, _)
SepLoop(h, d, res, elems) ==
    LET chunk == elems[1]
        h1    == CopyDoc(h, chunk)
    IN  IF Len(elems) = 1
        THEN LET a == AppendDoc(CopyDoc(h1, chunk), res, chunk)
             IN  [h |-> Cleanup(a.h, chunk), d |-> a.d]
        ELSE LET p == OpPlus(CopyDoc(h1, d), chunk, d)
                 g == DocGroup(p.h, p.d)
                 a == AppendDoc(g.h, res, g.d)
             IN  SepLoop(Cleanup(a.h, chunk), d, a.d, Tail(elems))

\* sep(Doc d, Range &&rng) and sep(Doc d, It begin, It end); d is destroyed
\* on return.
Sep(h, d, elems) ==
    LET r == IF elems = <<>> THEN [h |-> h, d |-> DocNil]
             ELSE SepLoop(h, d, DocNil, elems)
    IN  [h |-> Cleanup(r.h, d), d |-> r.d]

SepKinds == {"text", "softline", "comma softline"}

CommaSpace == <<",", " ">>

\* The separator of each kind: Doc::sv(", "), Doc::softline(),
\* Doc::c(',') + Doc::softline()
Separator(h, kind) ==
    CASE kind = "text" -> DocSv(h, CommaSpace)
      [] kind = "softline" -> DocSoftline(h)
      [] kind = "comma softline" ->
            LET s == DocSoftline(h) IN OpPlus(s.h, DocC(","), s.d)

ItemStrings == {<<"a">>, <<"b">>, <<"c">>}

RECURSIVE SeqsUpTo(_, _)
SeqsUpTo(S, n) ==
    IF n = 0 THEN {<<>>}
    ELSE SeqsUpTo(S, n - 1) \cup {Append(q, x) : q \in SeqsUpTo(S, n - 1), x \in S}

SepWidths == 1..MaxSepWidth

InitSep ==
    \E kind \in SepKinds, items \in SeqsUpTo(ItemStrings, MaxItems), W \in SepWidths :
        /\ term = T("sep", kind, 0, items)
        /\ heap = <<>>
        /\ root = DocNil
        /\ width = W
        /\ pc = "built"
        /\ rd = RenderIdle
        /\ law = NoLaw
        /\ slots = <<>>
        /\ last = NoOp
        /\ thr = NoThreads
        /\ fits = NoFits

\* root = sep(separator, docs); root.pretty(W)
SepPretty ==
    /\ pc = "built"
    /\ term.op = "sep"
    /\ LET docs == [n \in 1..Len(term.args) |-> ShortText(term.args[n])]
           d    == Separator(heap, term.s)
           r    == Sep(d.h, d.d, docs)
       IN  /\ heap' = r.h
           /\ root' = r.d
           /\ law' = [name |-> "sep", x |-> Pretty(r.h, r.d, width),
                      y |-> <<>>, z |-> <<>>, n |-> <<>>]
    /\ pc' = "law"
    /\ UNCHANGED <<term, width, rd, slots, last, thr, fits>>

NextSep == SepPretty

SpecSep == InitSep /\ [][NextSep]_vars

(***************************************************************************)
(* Ownership: the same Doc objects under the special member functions      *)
(* (doc.cc 140-189), with the constructors and operators that make heap    *)
(* objects with children.  A slot holding Nil also stands for an object    *)
(* that was destroyed or moved from, over which a new Doc is constructed.  *)
(***************************************************************************)
\* Doc::Doc(Doc &&other): the fields are taken and other is left as Nil.
MoveDoc(other) == [this |-> other, other |-> DocOfTag("Nil")]

\* Doc slot_i{slots[j]}: copy construction over a dead object
CopyConstruct(i, j) ==
    /\ Ready
    /\ i # j
    /\ IsNil(slots[i])
    /\ Update(i, [h |-> CopyDoc(heap, slots[j]), d |-> slots[j]], "copy construct")

\* Doc slot_i{std::move(slots[j])}: move construction over a dead object
MoveConstruct(i, j) ==
    /\ Ready
    /\ i # j
    /\ IsNil(slots[i])
    /\ heap' = heap
    /\ slots' = [slots EXCEPT ![i] = MoveDoc(slots[j]).this, ![j] = MoveDoc(slots[j]).other]
    /\ last' = [op |-> "move construct", target |-> i, info |-> 0, n |-> last.n + 1]
    /\ UNCHANGED <<term, root, width, pc, rd, law, thr, fits>>

\* slots[i] = std::move(slots[j])
MoveAssignSlot(i, j) ==
    /\ Ready
    /\ i # j
    /\ LET r == MoveAssign(heap, slots[i], slots[j])
       IN  /\ heap' = r.h
           /\ slots' = [slots EXCEPT ![i] = r.d, ![j] = DocOfTag("Nil")]
    /\ last' = [op |-> "move", target |-> i, info |-> 0, n |-> last.n + 1]
    /\ UNCHANGED <<term, root, width, pc, rd, law, thr, fits>>

\* slots[i] = slots[i] and slots[i] = std::move(slots[i]): both operators
\* return at once when this == &other.
AssignSelf(i) ==
    /\ Ready
    /\ Update(i, [h |-> heap, d |-> slots[i]], "self assign")

NextOwn ==
    \/ \E i \in Slots, str \in {StrA, StrLong} : NewText(i, "sv", str)
    \/ \E i, j, k \in Slots : Plus(i, j, k)
    \/ \E i, j \in Slots : Group(i, j)
    \/ \E i, j \in Slots : Copy(i, j)
    \/ \E i, j \in Slots : CopyConstruct(i, j)
    \/ \E i, j \in Slots : MoveConstruct(i, j)
    \/ \E i, j \in Slots : MoveAssignSlot(i, j)
    \/ \E i \in Slots : AssignSelf(i)
    \/ \E i, j \in Slots : PlusEq(i, j)
    \/ \E i, j \in Slots : AppendRng(i, <<j>>)
    \/ \E i \in Slots : Destroy(i)

SpecOwn == InitBuild /\ [][NextOwn]_vars

(***************************************************************************)
(* Threads: NumThreads threads hold Doc values that refer to one heap      *)
(* node.  Each thread copies and destroys only Docs it owns; the shared    *)
(* std::atomic<int> is touched by fetch_add and fetch_sub, one step each.  *)
(* thr.t[i] is thread i: its position `pc`, the number `owned` of Docs it  *)
(* holds whose reference is counted, and the copies it made.  thr.count is *)
(* the atomic, refsLive and objLive say whether the atomic and the node    *)
(* exist; `frees` counts the deletions of the node and `stale` records a   *)
(* fetch_add or fetch_sub on a deleted atomic.                             *)
(***************************************************************************)
Threads == 1..NumThreads

RECURSIVE SumOwned(_, _)
SumOwned(ts, n) == IF n = 0 THEN 0 ELSE ts[n].owned + SumOwned(ts, n - 1)

InitThreads ==
    \E held \in [Threads -> 0..MaxHeld] :
        /\ held # [i \in Threads |-> 0]
        /\ thr = [t |-> [i \in Threads |->
                            [pc |-> "idle", owned |-> held[i], copies |-> 0]],
                  count |-> SumOwned([i \in Threads |-> [owned |-> held[i]]], NumThreads),
                  refsLive |-> TRUE, objLive |-> TRUE, frees |-> 0, stale |-> FALSE]
        /\ heap = <<>>
        /\ term = T("nil", <<>>, 0, <<>>)
        /\ root = DocNil
        /\ width = 1
        /\ pc = "threads"
        /\ rd = RenderIdle
        /\ law = NoLaw
        /\ slots = <<>>
        /\ last = NoOp
        /\ fits = NoFits

\* What a fetch_add or fetch_sub on a deleted atomic may return.
StaleValues == 0..2

\* Doc::decrement: fetch_sub returned the count of the last reference.
DecrementWasLast_OffByOne(got) == got <= 2

DecrementWasLast(got) == got = 1

\* Doc::Doc(const Doc &other): refs and value are copied from a Doc the
\* thread owns.
CopyStart(i) ==
    /\ pc = "threads"
    /\ thr.t[i].pc = "idle"
    /\ thr.t[i].owned > 0
    /\ thr.t[i].copies < MaxCopies
    /\ thr' = [thr EXCEPT !.t[i].pc = "increment", !.t[i].copies = @ + 1]
    /\ UNCHANGED <<heap, term, root, width, pc, rd, law, slots, last, fits>>

\* Doc::increment: this->refs->fetch_add(1)
CopyIncrement(i) ==
    /\ pc = "threads"
    /\ thr.t[i].pc = "increment"
    /\ thr' = [thr EXCEPT !.t[i].pc = "idle",
                          !.t[i].owned = @ + 1,
                          !.count = @ + 1,
                          !.stale = @ \/ ~thr.refsLive]
    /\ UNCHANGED <<heap, term, root, width, pc, rd, law, slots, last, fits>>

\* Doc::~Doc -> cleanup -> decrement: this->refs->fetch_sub(1)
DtorDecrement(i) ==
    /\ pc = "threads"
    /\ thr.t[i].pc = "idle"
    /\ thr.t[i].owned > 0
    /\ \E got \in (IF thr.refsLive THEN {thr.count} ELSE StaleValues) :
          thr' = [thr EXCEPT !.t[i].pc = IF DecrementWasLast(got)
                                         THEN "delete refs" ELSE "idle",
                             !.t[i].owned = @ - 1,
                             !.count = @ - 1,
                             !.stale = @ \/ ~thr.refsLive]
    /\ UNCHANGED <<heap, term, root, width, pc, rd, law, slots, last, fits>>

\* Doc::cleanup: delete this->refs
DeleteRefs(i) ==
    /\ pc = "threads"
    /\ thr.t[i].pc = "delete refs"
    /\ thr' = [thr EXCEPT !.t[i].pc = "delete object",
                          !.refsLive = FALSE,
                          !.stale = @ \/ ~thr.refsLive]
    /\ UNCHANGED <<heap, term, root, width, pc, rd, law, slots, last, fits>>

\* Doc::cleanup: delete static_cast<T *>(this->data())
DeleteObject(i) ==
    /\ pc = "threads"
    /\ thr.t[i].pc = "delete object"
    /\ thr' = [thr EXCEPT !.t[i].pc = "idle",
                          !.objLive = FALSE,
                          !.frees = @ + 1]
    /\ UNCHANGED <<heap, term, root, width, pc, rd, law, slots, last, fits>>

NextThreads ==
    \/ \E i \in Threads : CopyStart(i)
    \/ \E i \in Threads : CopyIncrement(i)
    \/ \E i \in Threads : DtorDecrement(i)
    \/ \E i \in Threads : DeleteRefs(i)
    \/ \E i \in Threads : DeleteObject(i)

SpecThreads == InitThreads /\ [][NextThreads]_vars

(***************************************************************************)
(* The stepwise render with its progress condition: render is one          *)
(* sequential loop (doc.cc 533-597), so whenever an iteration or the       *)
(* return is possible the running thread takes it.                         *)
(***************************************************************************)
RenderLoop ==
    \/ RenderNilStep
    \/ RenderLineStep
    \/ RenderShortTextStep
    \/ RenderTextStep
    \/ RenderConcatStep
    \/ RenderChoiceStep
    \/ RenderNestStep
    \/ RenderReturn

SpecLive == Spec /\ WF_vars(RenderLoop)


(***************************************************************************)
(* The fit check taken one iteration at a time (doc.cc 404-509, 575-588).  *)
(* `fits.frames` holds the Fits objects that are live: the one built by    *)
(* render and, above it, the copies made for the nested checks.  Each has  *)
(* the members col, it and work; `col0` is the column it started with and  *)
(* `pending` the Choice node whose nested check it is waiting for.         *)
(* `fits.last` records the last return of check.                           *)
(***************************************************************************)
MaxFitsSize == 4

InitFits ==
    \E n \in 1..MaxFitsSize, W \in Widths :
        \E t \in TermsOfSize(n) :
            /\ term = t
            /\ LET b == Build(<<>>, t)
               IN  heap = b.h /\ root = b.d
            /\ width = W
            /\ pc = "built"
            /\ rd = RenderIdle
            /\ law = NoLaw
            /\ slots = <<>>
            /\ last = NoOp
            /\ thr = NoThreads
            /\ fits = NoFits

\* Fits fit{width, col, work.rbegin(), work.rend()} and the first
\* emplace_back of check(doc, flattening).
FitsNew(col, stack, doc, flattening) ==
    [col |-> col, it |-> Len(stack),
     work |-> <<Node(doc, 0, flattening \/ IsFlattened(doc), <<>>)>>,
     col0 |-> col, pending |-> <<>>]

\* Fits nested{*this} and the first emplace_back of nested.check(...).
FitsNested(f, doc, flattening) ==
    [f EXCEPT !.work = Append(@, Node(doc, 0, flattening \/ IsFlattened(doc), <<>>)),
              !.col0 = f.col,
              !.pending = <<>>]

\* A nested check that works on the enclosing object itself.
FitsResume_Shared(parent, nested) ==
    [parent EXCEPT !.col = nested.col, !.it = nested.it, !.work = nested.work]

\* The enclosing Fits after nested.check returned: nested was a copy.
FitsResume(parent, nested) == parent

FitsFrame == fits.frames[Len(fits.frames)]

AtFits == pc = "fits" /\ fits.frames # <<>>

AtFitsCase(tag) == AtFits /\ FitsFrame.work # <<>> /\ Top(FitsFrame.work).doc.tag = tag

\* The innermost Fits becomes f.
FitsContinue(f) ==
    /\ fits' = [fits EXCEPT !.frames[Len(fits.frames)] = f]
    /\ UNCHANGED <<heap, term, root, width, pc, rd, law, slots, last, thr>>

\* check returns v from the Fits f: to render, or to the enclosing check,
\* which pushes the branch it selected.
FitsReturn(f, v) ==
    LET n   == Len(fits.frames)
        rec == [ret |-> v, col |-> f.col, col0 |-> f.col0, depth |-> n]
    IN  /\ IF n = 1
           THEN /\ fits' = [fits EXCEPT !.frames = <<>>, !.ret = v, !.last = rec]
                /\ pc' = "chosen"
           ELSE LET parent == FitsResume(fits.frames[n - 1], f)
                    node   == fits.frames[n - 1].pending
                    kids   == heap[node.doc.ptr].kids
                    next   == [parent EXCEPT
                                  !.work = Append(@, FitsPush(node,
                                              IF v THEN kids[1] ELSE kids[2])),
                                  !.pending = <<>>]
                IN  /\ fits' = [fits EXCEPT
                                  !.frames = Append(SubSeq(fits.frames, 1, n - 2), next),
                                  !.last = rec]
                    /\ pc' = "fits"
        /\ UNCHANGED <<heap, term, root, width, rd, law, slots, last, thr>>

\* render, Choice case outside a flattened context: the node is popped and
\* the Fits is built on the stack as the pop left it.
FitsEnter ==
    /\ AtCase("Choice")
    /\ ~Top(rd.work).flattening
    /\ LET node == Top(rd.work)
           rest == Front(rd.work)
       IN  /\ rd' = [rd EXCEPT !.work = rest]
           /\ fits' = [node |-> node,
                       frames |-> <<FitsNew(rd.col, rest, heap[node.doc.ptr].kids[1],
                                            node.flattening)>>,
                       ret |-> "none",
                       last |-> fits.last]
    /\ pc' = "fits"
    /\ UNCHANGED <<heap, term, root, width, law, slots, last, thr>>

\* render, Choice case in a flattened context
RenderFlatChoiceStep ==
    /\ AtCase("Choice")
    /\ Top(rd.work).flattening
    /\ rd' = RenderStep(heap, width, rd)
    /\ UNCHANGED <<heap, term, root, width, pc, law, slots, last, thr, fits>>

\* while (this->advance()): the next pending item of the renderer is copied.
FitsAdvance ==
    /\ AtFits
    /\ FitsFrame.work = <<>>
    /\ FitsAdvanceOk(FitsFrame.it, rd.work)
    /\ fits' = [fits EXCEPT !.frames[Len(fits.frames)] =
                   [FitsFrame EXCEPT !.work = <<rd.work[FitsFrame.it]>>, !.it = @ - 1]]
    /\ UNCHANGED <<heap, term, root, width, pc, rd, law, slots, last, thr>>

\* advance returned false: return true.
FitsEnd ==
    /\ AtFits
    /\ FitsFrame.work = <<>>
    /\ ~FitsAdvanceOk(FitsFrame.it, rd.work)
    /\ FitsReturn(FitsFrame, TRUE)

FitsPopped == [FitsFrame EXCEPT !.work = Front(@)]

FitsNilStep ==
    /\ AtFitsCase("Nil")
    /\ FitsContinue(FitsPopped)

FitsLineStep ==
    /\ AtFitsCase("Line")
    /\ IF Top(FitsFrame.work).flattening
       THEN FitsContinue([FitsPopped EXCEPT !.col = FitsLineCol(@)])
       ELSE FitsReturn(FitsPopped, TRUE)

FitsTextStep ==
    /\ AtFits
    /\ FitsFrame.work # <<>>
    /\ Top(FitsFrame.work).doc.tag \in {"ShortText", "Text"}
    /\ LET f == [FitsPopped EXCEPT
                    !.col = FitsTextCol(@, TextOf(heap, Top(FitsFrame.work).doc))]
       IN  IF f.col > width THEN FitsReturn(f, FALSE) ELSE FitsContinue(f)

FitsConcatStep ==
    /\ AtFitsCase("Concat")
    /\ LET node == Top(FitsFrame.work)
       IN  FitsContinue([FitsPopped EXCEPT
               !.work = @ \o FitsConcatPush(node, heap[node.doc.ptr].kids)])

\* Choice case: the copy is made and its check starts on the left branch.
FitsChoiceStep ==
    /\ AtFitsCase("Choice")
    /\ LET node == Top(FitsFrame.work)
           left == heap[node.doc.ptr].kids[1]
           n    == Len(fits.frames)
       IN  fits' = [fits EXCEPT
              !.frames = SubSeq(fits.frames, 1, n - 1)
                  \o <<[FitsPopped EXCEPT !.pending = node],
                       FitsNested(FitsPopped, left,
                                  node.flattening \/ IsFlattened(left))>>]
    /\ UNCHANGED <<heap, term, root, width, pc, rd, law, slots, last, thr>>

FitsNestStep ==
    /\ AtFitsCase("Nest")
    /\ LET node == Top(FitsFrame.work)
       IN  FitsContinue([FitsPopped EXCEPT
               !.work = Append(@, FitsPush(node, heap[node.doc.ptr].kids[1]))])

\* render, Choice case: push(node, &choice.left) or push(node, &choice.right)
RenderChosen ==
    /\ pc = "chosen"
    /\ LET node == fits.node
           kids == heap[node.doc.ptr].kids
       IN  rd' = IF fits.ret
                 THEN [rd EXCEPT !.work = Append(@, RenderPush(node, kids[1], 1)),
                                 !.leftOpen = TRUE]
                 ELSE [rd EXCEPT !.work = Append(@, RenderPush(node, kids[2], 2))]
    /\ fits' = [NoFits EXCEPT !.last = fits.last]
    /\ pc' = "render"
    /\ UNCHANGED <<heap, term, root, width, law, slots, last, thr>>

NextFits ==
    \/ \E kind \in WriterKinds : RenderStart(kind)
    \/ \E kind \in WriterKinds : RenderStartFlat(kind)
    \/ RenderNilStep
    \/ RenderLineStep
    \/ RenderShortTextStep
    \/ RenderTextStep
    \/ RenderConcatStep
    \/ RenderFlatChoiceStep
    \/ RenderNestStep
    \/ FitsEnter
    \/ FitsAdvance
    \/ FitsEnd
    \/ FitsNilStep
    \/ FitsLineStep
    \/ FitsTextStep
    \/ FitsConcatStep
    \/ FitsChoiceStep
    \/ FitsNestStep
    \/ RenderChosen
    \/ RenderReturn

SpecFits == InitFits /\ [][NextFits]_vars


(***************************************************************************)
(* Flattening a document that stays in use: slot 1 holds a document d of   *)
(* the public constructors, and the caller stores Doc::flatten(d) and      *)
(* Doc::group(d) in the other slots, flattens those in place and destroys  *)
(* slots (as in TEST_CASE("flatten"), which renders d and flatten(d)).     *)
(***************************************************************************)
MaxFlattenSize == 3
MaxFlattenOps == 2

InitFlatten ==
    \E n \in 1..MaxFlattenSize :
        \E t \in TermsOfSize(n) :
            /\ term = t
            /\ LET b == Build(<<>>, t)
               IN  /\ heap = b.h
                   /\ slots = [i \in Slots |-> IF i = 1 THEN b.d ELSE DocNil]
            /\ root = DocNil
            /\ width = MaxWidth
            /\ pc = "ops"
            /\ rd = RenderIdle
            /\ law = NoLaw
            /\ last = NoOp
            /\ thr = NoThreads
            /\ fits = NoFits

NextFlatten ==
    /\ last.n < MaxFlattenOps
    /\ \/ \E i \in Slots \ {1} : FlattenOf(i, 1)
       \/ \E i \in Slots \ {1} : Group(i, 1)
       \/ \E i \in Slots \ {1} : FlattenSlot(i)
       \/ \E i \in Slots : Destroy(i)

SpecFlatten == InitFlatten /\ [][NextFlatten]_vars


(***************************************************************************)
(* Appending to a document: slot 1 holds a document x of the public        *)
(* constructors, uniquely owned; the caller may flatten it in place or     *)
(* share it by a copy, builds y in another slot (a line, a text or a copy  *)
(* of x) and appends y to x.                                               *)
(***************************************************************************)
NextAppend ==
    \/ \E i \in Slots : FlattenSlot(i)
    \/ \E i \in Slots \ {1} : NewLine(i)
    \/ \E i \in Slots \ {1} : NewText(i, "sv", StrA)
    \/ \E i \in Slots \ {1} : Copy(i, 1)
    \/ \E j \in Slots \ {1} : PlusEq(1, j)
    \/ \E j \in Slots \ {1} : ShlEq(1, j)

SpecAppend == InitFlatten /\ [][NextAppend]_vars


(***************************************************************************)
(* One document at two widths: root.pretty(width) and root.pretty(W2).     *)
(***************************************************************************)
PrettyAtWidths(W2) ==
    /\ pc = "built"
    /\ law' = [NoLaw EXCEPT !.name = "widths",
                            !.x = Pretty(heap, root, width),
                            !.y = Pretty(heap, root, W2),
                            !.n = <<width, W2>>]
    /\ pc' = "law"
    /\ UNCHANGED <<heap, term, root, width, rd, slots, last, thr, fits>>

NextWidths == \E W2 \in Widths : PrettyAtWidths(W2)

SpecWidths == Init /\ [][NextWidths]_vars


(***************************************************************************)
(* Properties.                                                             *)
(***************************************************************************)
\* The output column: the characters written since the last newline.
RECURSIVE RealCol(_)
RealCol(buf) ==
    IF buf = <<>> \/ buf[Len(buf)] = NL THEN 0 ELSE 1 + RealCol(Front(buf))

Has(seq, c) == \E i \in 1..Len(seq) : seq[i] = c

\* The Doc reached from d along a path of child indices.
RECURSIVE DocAt(_, _, _)
DocAt(h, d, path) ==
    IF path = <<>> THEN d ELSE DocAt(h, h[d.ptr].kids[path[1]], Tail(path))

\* The sum of the k of every Nest on the path from d, the end excluded.
RECURSIVE NestSum(_, _, _)
NestSum(h, d, path) ==
    IF path = <<>> THEN 0
    ELSE (IF d.tag = "Nest" THEN h[d.ptr].indent ELSE 0)
            + NestSum(h, h[d.ptr].kids[path[1]], Tail(path))

\* Render on from r until a real line break is next, or nothing is left.
RECURSIVE RenderToBreak(_, _, _)
RenderToBreak(h, W, r) ==
    IF r.work = <<>> \/ (Top(r.work).doc.tag = "Line" /\ ~Top(r.work).flattening)
    THEN r
    ELSE RenderToBreak(h, W, RenderStep(h, W, r))

\* With the Choice on top of the stack resolved to its left branch, the rest
\* of the current line stays within W.
LeftLaidOutWithin(h, W, r) ==
    LET node == Top(r.work)
        r1   == [r EXCEPT !.work = Append(Front(@),
                                RenderPush(node, h[node.doc.ptr].kids[1], 1))]
    IN  RealCol(RenderToBreak(h, W, r1).w.buf) <= W

AtFreeChoice == AtCase("Choice") /\ ~Top(rd.work).flattening

\* C1: after render commits to the left branch of a Choice reached outside a
\* flattened context, the output column (indentation included) stays within
\* the width until the next newline; and render commits to the right branch
\* only when the left branch followed by the pending work cannot be laid out
\* on the current line within the width.
C1_LeftCommitStaysWithinWidth ==
    /\ rd.leftOpen => RealCol(rd.w.buf) <= width
    /\ (AtFreeChoice /\ ~RenderChoiceFits(heap, width, [rd EXCEPT !.work = Front(@)],
                                           Top(rd.work)))
          => ~LeftLaidOutWithin(heap, width, rd)

\* C2: if pretty(flatten(d), W) is no longer than W then pretty(group(d), W)
\* is equal to it.
C2_GroupRendersFittingFlat ==
    (law.name = "group" /\ Len(law.x.out) <= width) => law.y = law.x

C2_Witness ==
    /\ law.name = "group"
    /\ Len(law.x.out) <= width
    /\ law.y = law.x
    /\ Has(law.x.out, SP)
    /\ Has(law.x.out, "a")
    /\ term.op = "concat"
    /\ term.args[1].op = "group"
    /\ Has(Pretty(heap, root, width).out, NL)

\* C4: rendering flatten(d) never calls writer.line: every Line reached, at
\* any depth, is written as one space and the output holds no newline.
C4_FlattenWritesNoLine ==
    rd.doc.flat =>
        /\ \A i \in 1..Len(rd.calls) :
              /\ rd.calls[i].op # "line"
              /\ DocAt(heap, rd.doc, rd.calls[i].path).tag = "Line"
                    => rd.calls[i].text = <<SP>>
        /\ ~Has(rd.w.buf, NL)

C4_Witness ==
    /\ pc = "done"
    /\ rd.doc.flat
    /\ \E i \in 1..Len(rd.calls) :
          /\ Len(rd.calls[i].path) >= 3
          /\ DocAt(heap, rd.doc, rd.calls[i].path).tag = "Line"
          /\ ~DocAt(heap, rd.doc, rd.calls[i].path).flat
          /\ rd.calls[i].text = <<SP>>

\* C5: pretty(nil + x, W) = pretty(x, W) = pretty(x + nil, W), and pretty(nil, W)
\* is the empty string.
C5_NilIsIdentityOfConcat ==
    law.name = "nil" =>
        /\ law.y = law.x
        /\ law.z = law.x
        /\ law.n = [out |-> <<>>, status |-> "ok"]

C5_Witness ==
    /\ law.name = "nil"
    /\ law.y = law.x
    /\ law.z = law.x
    /\ Has(law.x.out, NL)
    /\ Has(law.x.out, SP)
    /\ Has(law.x.out, "a")

\* C6: pretty((x + y) + z, W) = pretty(x + (y + z), W).
C6_ConcatIsAssociative == law.name = "assoc" => law.y = law.x

C6_Witness ==
    /\ law.name = "assoc"
    /\ law.y = law.x
    /\ term.args[1].args[1].op \in {"softline", "softbreak"}
    /\ Has(law.x.out, NL)
    /\ Has(law.x.out, "a")

\* What the calls received so far should have written: a write its text, a
\* line one newline and max(0, indent) spaces.
RECURSIVE WrittenBy(_)
WrittenBy(calls) ==
    IF calls = <<>> THEN <<>>
    ELSE WrittenBy(Front(calls))
            \o (IF Top(calls).op = "write" THEN Top(calls).text
                ELSE <<NL>> \o Spaces(Max(0, Top(calls).indent)))

\* C7: with either writer, line(indent) appends one newline and max(0, indent)
\* spaces and completes normally, for every integer indent.
C7_LineWritesFlooredIndent ==
    /\ rd.w.status = "ok"
    /\ rd.w.buf = WrittenBy(rd.calls)

\* C8: the indent passed to writer.line at a real line break is the sum of the
\* k of every Nest enclosing that Line, and of nothing else.
C8_IndentIsSumOfEnclosingNests ==
    \A i \in 1..Len(rd.calls) :
        rd.calls[i].op = "line"
            => rd.calls[i].indent = NestSum(heap, rd.doc, rd.calls[i].path)

C8_Witness ==
    \E i, j \in 1..Len(rd.calls) :
        /\ i < j
        /\ rd.calls[i].op = "line"
        /\ rd.calls[i].indent = 1
        /\ rd.calls[j].op = "line"
        /\ rd.calls[j].indent = 0

\* No heap object is reachable from itself, and none reached was freed.
RECURSIVE WellFormed(_, _, _)
WellFormed(h, d, seen) ==
    \/ ~Boxed(d)
    \/ /\ d.ptr \notin seen
       /\ h[d.ptr].tag # "Free"
       /\ \A n \in 1..Len(h[d.ptr].kids) :
              WellFormed(h, h[d.ptr].kids[n], seen \cup {d.ptr})

\* What a Doc renders at every width; rendering a cyclic document never ends.
Rendering(h, d) ==
    IF WellFormed(h, d, {})
    THEN [ends |-> TRUE, out |-> [W \in Widths |-> Pretty(h, d, W)]]
    ELSE [ends |-> FALSE, out |-> <<>>]

\* C3: an operation applied to one Doc changes what no other Doc renders, at
\* any width.
C3_OtherDocsRenderTheSame ==
    [][\A s \in Slots :
          s # last'.target => Rendering(heap', slots'[s]) = Rendering(heap, slots[s])]_vars

\* The Docs held by slots and by heap objects.
AllDocs ==
    {slots[i] : i \in Slots}
        \cup UNION {{heap[n].kids[m] : m \in 1..Len(heap[n].kids)} : n \in 1..Len(heap)}

\* C9: every Concat has at least two children and no Nil child; a concat of
\* no non-nil document is nil.
C9_ConcatHoldsTwoNonNil ==
    /\ \A n \in 1..Len(heap) :
          heap[n].tag = "Concat" =>
              /\ Len(heap[n].kids) >= 2
              /\ \A m \in 1..Len(heap[n].kids) : ~IsNil(heap[n].kids[m])
    /\ (last.op \in {"+", "join"} /\ last.info = 0) => IsNil(slots[last.target])

\* C10: every text constructor given the empty string returns Nil, and no text
\* of length 0 exists.
C10_EmptyTextIsNil ==
    /\ (last.op = "text" /\ last.info = 0) => IsNil(slots[last.target])
    /\ \A d \in AllDocs : d.tag = "ShortText" => d.size > 0
    /\ \A n \in 1..Len(heap) : heap[n].tag = "Text" => heap[n].text # <<>>

\* What a break-or-space in front of the text s renders at width W.
SpaceOrBreakThen(s, W) ==
    [out |-> (IF 1 + Len(s) <= W THEN <<SP>> ELSE <<NL>>) \o s, status |-> "ok"]

\* C11: a text of length >= 1, whichever constructor built it and whether it
\* is stored inline or on the heap, is written as exactly its characters by
\* one write call, advances the renderer's column by its length, and counts
\* for its length in the fit walk that decides a choice.
C11_TextRendersItsBytes ==
    /\ (last.op \in TextCtors /\ pc = "done") =>
          /\ rd.w.buf = term.s
          /\ rd.w.status = "ok"
          /\ rd.col = Len(term.s)
          /\ Len(rd.calls) = 1
    /\ (last.op \in TextCtors /\ law.name = "text") =>
          /\ law.x = SpaceOrBreakThen(term.s, width)
          /\ law.y = SpaceOrBreakThen(term.s, width)

C11_Witness ==
    /\ last.op \in TextCtors
    /\ law.name = "text"
    /\ root.tag = "Text"
    /\ Len(term.s) = 9
    /\ width = 10
    /\ law.x.out = <<SP>> \o term.s

\* render is about to resolve a softline, choice(c(' '), line()), outside a
\* flattened context.
AtSoftline ==
    /\ AtFreeChoice
    /\ heap[Top(rd.work).doc.ptr].kids = <<DocC(SP), DocLine>>

\* C12: a softline is rendered as one space exactly when the space followed
\* by the content up to the next real line break stays within the width, the
\* indentation already written included; otherwise as a line break.
C12_SoftlineIsSpaceIffItFits ==
    AtSoftline =>
        (RenderChoiceFits(heap, width, [rd EXCEPT !.work = Front(@)], Top(rd.work))
            <=> LeftLaidOutWithin(heap, width, rd))

\* The items with `between` after each one but the last.
RECURSIVE Interleave(_, _)
Interleave(items, between) ==
    IF items = <<>> THEN <<>>
    ELSE IF Len(items) = 1 THEN items[1]
    ELSE (items[1] \o between) \o Interleave(Tail(items), between)

ABC == <<<<"a">>, <<"b">>, <<"c">>>>

\* C13, as stated: sep(text(", "), [a, b, c]) renders as "a, b, c" at width 80
\* and as "a,\nb,\nc" at width 1.
C13_SepOfTextBreaksAtWidthOne ==
    (law.name = "sep" /\ term.s = "text" /\ term.args = ABC /\ width = 1)
        => law.x.out = Interleave(ABC, <<",", NL>>)

\* C13, amended: sep with the separator text(", ") renders the items with
\* ", " between them on one line at every width, a text holding no line
\* break; the output breaks after each separator at width 1, and holds none
\* when the whole fits, if the separator ends in a softline.
C13_SepBreaksOnlyAtLines ==
    law.name = "sep" =>
        /\ law.x.status = "ok"
        /\ term.s = "text" => law.x.out = Interleave(term.args, CommaSpace)
        /\ (term.s = "comma softline" /\ width = 1)
              => law.x.out = Interleave(term.args, <<",", NL>>)
        /\ (term.s = "comma softline"
                /\ Len(Interleave(term.args, CommaSpace)) <= width)
              => law.x.out = Interleave(term.args, CommaSpace)
        /\ (term.s = "softline" /\ width = 1)
              => law.x.out = Interleave(term.args, <<NL>>)

C13_Witness ==
    /\ law.name = "sep"
    /\ term.s = "text"
    /\ term.args = ABC
    /\ width = 1
    /\ law.x.out = <<"a", ",", " ", "b", ",", " ", "c">>

\* What the concatenation of the Doc d and the Docs ds renders.
RenderingOfAll(h, d, ds) ==
    LET c == DocConcat(h, <<d>> \o ds) IN Rendering(c.h, c.d)

\* C14: x.append(r) appends, whatever the kind of x: afterwards x renders as
\* its former content followed by the elements of r in order, and as before
\* when r is empty.
C14_AppendRangeKeepsContent ==
    [][\A i \in Slots, js \in Ranges :
          AppendRng(i, js) =>
              /\ Rendering(heap', slots'[i]) = RenderingOfAll(heap, slots[i], RangeElems(js))
              /\ js = <<>> => Rendering(heap', slots'[i]) = Rendering(heap, slots[i])]_vars

\* No heap object is reachable from the Doc d after passing through an
\* object of `seen`.
RECURSIVE Acyclic(_, _, _)
Acyclic(h, d, seen) ==
    \/ ~Boxed(d)
    \/ /\ d.ptr \notin seen
       /\ \A n \in 1..Len(h[d.ptr].kids) : Acyclic(h, h[d.ptr].kids[n], seen \cup {d.ptr})

\* C15: after any sequence of public constructors and operators the document
\* graph is acyclic: no node is reachable from itself through child
\* references.
C15_DocumentGraphIsAcyclic == \A i \in Slots : Acyclic(heap, slots[i], {})

\* The live Doc values that refer to heap object n: the slots, and the
\* children held by heap objects that were not freed.
Referrers(n) ==
    {<<0, i>> : i \in {i \in Slots : Boxed(slots[i]) /\ slots[i].ptr = n}}
        \cup UNION {{<<m, k>> : k \in {k \in 1..Len(heap[m].kids) :
                                          /\ Boxed(heap[m].kids[k])
                                          /\ heap[m].kids[k].ptr = n}} :
                    m \in {m \in 1..Len(heap) : heap[m].tag # "Free"}}

\* C16: the shared count of every heap node equals the number of live Doc
\* values that refer to it; a node is freed once, with its count at 0, when
\* no live Doc refers to it, never before, and its children were released.
C16_CountIsNumberOfLiveReferences ==
    \A n \in 1..Len(heap) :
        /\ heap[n].refs = Cardinality(Referrers(n))
        /\ heap[n].tag = "Free" <=> heap[n].refs = 0

C16_Witness ==
    /\ last.op = "move"
    /\ Len(heap) = 2
    /\ heap[1].tag = "Text"
    /\ heap[1].refs = 1
    /\ heap[2].tag = "Free"
    /\ slots[2].tag = "Text"
    /\ slots[2].ptr = 1

\* C17: under every interleaving of the threads' atomic increments and
\* decrements the node is freed exactly once, after the last reference was
\* destroyed, and no thread touches the count of a node already freed.
C17_SharedNodeIsFreedOnceAfterLastDrop ==
    pc = "threads" =>
        /\ ~thr.stale
        /\ thr.frees <= 1
        /\ thr.objLive <=> thr.frees = 0
        /\ thr.refsLive => thr.count = SumOwned(thr.t, NumThreads)
        /\ ~thr.refsLive =>
              \A i \in Threads : thr.t[i].owned = 0 /\ thr.t[i].pc # "increment"
        /\ (\A i \in Threads : thr.t[i].owned = 0 /\ thr.t[i].pc = "idle")
              => thr.frees = 1

C17_Witness ==
    /\ pc = "threads"
    /\ thr.frees = 1
    /\ \A i \in Threads : thr.t[i].copies = MaxCopies /\ thr.t[i].pc = "idle"

\* The paths of the nodes that made the writer calls, in call order.
CallPaths == [i \in 1..Len(rd.calls) |-> rd.calls[i].path]

IsPrefix(p, q) == Len(p) <= Len(q) /\ SubSeq(q, 1, Len(p)) = p

\* The first index at which the paths p and q differ; 0 if one is a prefix
\* of the other.
FirstDiff(p, q) ==
    LET ds == {n \in 1..Len(p) : n <= Len(q) /\ p[n] # q[n]}
    IN  IF ds = {} THEN 0 ELSE CHOOSE n \in ds : \A m \in ds : n <= m

\* p comes before q in reading order: they part at a Concat, p into an
\* earlier child.
ReadsBefore(h, d, p, q) ==
    LET n == FirstDiff(p, q)
    IN  /\ n > 0
        /\ p[n] < q[n]
        /\ DocAt(h, d, SubSeq(p, 1, n - 1)).tag = "Concat"

NoCallUnder(path) == \A i \in 1..Len(rd.calls) : ~IsPrefix(path, rd.calls[i].path)

\* Every Text and Line of the tree left after choice resolution made a call,
\* and the branch of each Choice that was not selected made none.
RECURSIVE Covered(_, _, _)
Covered(h, d, path) ==
    CASE d.tag = "Nil" -> TRUE
      [] d.tag \in {"Line", "ShortText", "Text"} ->
            \E i \in 1..Len(rd.calls) : rd.calls[i].path = path
      [] d.tag = "Concat" ->
            \A k \in 1..Len(h[d.ptr].kids) : Covered(h, h[d.ptr].kids[k], Append(path, k))
      [] d.tag = "Nest" -> Covered(h, h[d.ptr].kids[1], Append(path, 1))
      [] d.tag = "Choice" ->
            \/ /\ Covered(h, h[d.ptr].kids[1], Append(path, 1))
               /\ NoCallUnder(Append(path, 2))
            \/ /\ Covered(h, h[d.ptr].kids[2], Append(path, 2))
               /\ NoCallUnder(Append(path, 1))

C19_RenderEndsWithEmptyStack ==
    (pc = "render") ~> (pc = "done" /\ rd.work = <<>>)

\* The column the claim assigns after the node on top of the stack is handled.
ColumnAfter(h, c, node) ==
    CASE node.doc.tag \in {"ShortText", "Text"} -> c + Len(TextOf(h, node.doc))
      [] node.doc.tag = "Line" -> IF node.flattening THEN c + 1 ELSE node.indent
      [] OTHER -> c

\* C20: the column of render tracks the output position on the current line:
\* it starts at 0, a Text adds its length, a flattened Line adds 1 and a
\* non-flattened Line written with indentation indent sets it to indent.
C20_ColumnTracksOutputPosition ==
    [][/\ (pc = "built" /\ pc' = "render") => rd'.col = 0
       /\ (pc = "render" /\ RenderRunning(rd) /\ rd'.w.status = "ok") =>
              rd'.col = ColumnAfter(heap, rd.col, Top(rd.work))]_vars

\* C21: the fit walk returns false as soon as its column exceeds the width,
\* whichever node caused the increase: no walk that started within the width
\* goes on with a column beyond it, and none returns true with one.
C21_FitsFalseOnceBeyondWidth ==
    /\ \A i \in 1..Len(fits.frames) :
          fits.frames[i].col0 <= width => fits.frames[i].col <= width
    /\ (fits.last # <<>> /\ fits.last.ret /\ fits.last.col0 <= width) =>
          fits.last.col <= width

\* C22: a fit check is read-only for the renderer: while it runs, the
\* renderer's stack, column and writer stay as they were, whatever it
\* returns; and a nested check made at a Choice inside the lookahead leaves
\* the column, the work list and the position in the pending stack of the
\* enclosing walk as they were.
C22_FitsIsReadOnly ==
    [][pc = "fits" =>
          LET n  == Len(fits.frames)
              n2 == Len(fits'.frames)
          IN  /\ rd' = rd
              /\ \A i \in 1..(n - 1) : i < n2 => fits'.frames[i] = fits.frames[i]
              /\ (n2 = n - 1 /\ n2 >= 1) =>
                    /\ fits'.frames[n2].col = fits.frames[n2].col
                    /\ fits'.frames[n2].it = fits.frames[n2].it
                    /\ Front(fits'.frames[n2].work) = fits.frames[n2].work]_vars

C22_Witness ==
    /\ pc = "fits"
    /\ Len(fits.frames) = 1
    /\ fits.last # <<>>
    /\ fits.last.depth = 2
    /\ fits.last.col > fits.frames[1].col
    /\ fits.frames[1].it < Len(rd.work)

\* The heap object of the Doc d is live in h2 with the content it has in h.
SameObject(h, h2, d) ==
    Boxed(d) =>
        /\ h2[d.ptr].tag = h[d.ptr].tag
        /\ h2[d.ptr].text = h[d.ptr].text
        /\ h2[d.ptr].kids = h[d.ptr].kids
        /\ h2[d.ptr].indent = h[d.ptr].indent
        /\ h2[d.ptr].refs >= 1

\* C23: flatten(d) is a reference to the same object as d (same tag, inline
\* size and data, pointer and count cell) with the flattened bit set, and d
\* keeps its own bit and renders as before, also when both are children of
\* one document as in group(d).
C23_FlattenLeavesTheOriginal ==
    [][\A i, j \in Slots :
          i # j =>
              /\ FlattenOf(i, j) =>
                    /\ slots'[i] = [slots[j] EXCEPT !.flat = TRUE]
                    /\ slots'[j] = slots[j]
                    /\ SameObject(heap, heap', slots[j])
                    /\ Rendering(heap', slots'[j]) = Rendering(heap, slots[j])
              /\ Group(i, j) =>
                    /\ heap'[slots'[i].ptr].tag = "Choice"
                    /\ heap'[slots'[i].ptr].kids =
                          <<[slots[j] EXCEPT !.flat = TRUE], slots[j]>>
                    /\ slots'[j] = slots[j]
                    /\ SameObject(heap, heap', slots[j])
                    /\ Rendering(heap', slots'[j]) = Rendering(heap, slots[j])]_vars

C23_Witness ==
    /\ last.op = "flatten(d)"
    /\ last.target = 2
    /\ Boxed(slots[1])
    /\ ~slots[1].flat
    /\ slots[2] = [slots[1] EXCEPT !.flat = TRUE]
    /\ heap[slots[1].ptr].refs = 2
    /\ Has(Pretty(heap, slots[1], MaxWidth).out, NL)
    /\ ~Has(Pretty(heap, slots[2], MaxWidth).out, NL)

\* Some reference on the path from d is flattened: the node at the end of
\* the path is rendered in a flattened context.
FlatAlong(h, d, path) ==
    \E k \in 0..Len(path) : DocAt(h, d, SubSeq(path, 1, k)).flat

\* The writer call c came from the right branch of a Choice that render
\* popped in a flattened context.
FromFlattenedRight(c) ==
    \E n \in 1..Len(c.path) :
        /\ DocAt(heap, rd.doc, SubSeq(c.path, 1, n - 1)).tag = "Choice"
        /\ FlatAlong(heap, rd.doc, SubSeq(c.path, 1, n - 1))
        /\ c.path[n] = 2

\* C24: a Choice popped in a flattened context pushes its left branch with
\* the same indent and flattened, without a fit check and whatever the
\* width; no writer call comes from the right branch of such a Choice.
C24_FlattenedChoiceTakesLeft ==
    [][/\ (AtCase("Choice") /\ Top(rd.work).flattening) =>
              LET node == Top(rd.work)
              IN  /\ pc' = "render"
                  /\ fits' = fits
                  /\ rd'.col = rd.col
                  /\ rd'.w = rd.w
                  /\ Front(rd'.work) = Front(rd.work)
                  /\ Top(rd'.work).doc = heap[node.doc.ptr].kids[1]
                  /\ Top(rd'.work).indent = node.indent
                  /\ Top(rd'.work).flattening
       /\ \A i \in 1..Len(rd'.calls) : ~FromFlattenedRight(rd.calls[i])']_vars

C24_Witness ==
    /\ pc = "done"
    /\ rd.w.status = "ok"
    /\ Len(rd.w.buf) > width
    /\ ~Has(rd.w.buf, NL)
    /\ \E i \in 1..Len(rd.calls) :
          \E n \in 1..Len(rd.calls[i].path) :
              /\ DocAt(heap, rd.doc, SubSeq(rd.calls[i].path, 1, n - 1)).tag = "Choice"
              /\ FlatAlong(heap, rd.doc, SubSeq(rd.calls[i].path, 1, n - 1))
              /\ rd.calls[i].path[n] = 1

\* What the temporary r.d renders in the heap r.h.
RenderingOf(r) == Rendering(r.h, r.d)

\* C25: appending in place has no observable effect: after x.append(y) or
\* x += y, x renders at every width as x + y computed from the old x, and
\* after x <<= y as x << y, whatever the kind, ownership and flattening of x.
C25_AppendRendersAsPlus ==
    [][\A i, j \in Slots :
          \E after \in {[h |-> heap', d |-> slots'[i]]} :
              /\ PlusEq(i, j) =>
                    RenderingOf(after) =
                        RenderingOf(OpPlus(CopyDoc(heap, slots[j]), slots[i], slots[j]))
              /\ ShlEq(i, j) =>
                    RenderingOf(after) =
                        RenderingOf(OpShl(CopyDoc(heap, slots[j]), slots[i], slots[j]))]_vars

\* The string without its spaces and newlines.
NonBlank(str) == SelectSeq(str, LAMBDA c : c \notin {SP, NL})

\* C26: layout choices change only whitespace: pretty at any two widths
\* returns strings that are equal once spaces and newlines are deleted.
C26_WidthChangesOnlyWhitespace ==
    (pc = "law" /\ law.name = "widths") =>
        /\ law.x.status = law.y.status
        /\ (law.x.status = "ok" /\ law.y.status = "ok") =>
              NonBlank(law.x.out) = NonBlank(law.y.out)

=============================================================================
